---- MODULE Spec2Model ----
(***************************************************************************)
(* A model of the preempt scheduler (oberhauserg/preempt).                 *)
(*                                                                         *)
(*   task/mod.rs      Task::do_work, Task::has_work_remaining,             *)
(*                    Task::filter_context_tasks                           *)
(*   context/mod.rs   Context::get_timeblock                               *)
(*   schedule/mod.rs  get_task_priority, get_priority_queue,               *)
(*                    create_pomodoro_block, create_pomodoro_rest,         *)
(*                    handle_task, populate_time_block, build_schedule     *)
(*                                                                         *)
(* Times of day (chrono::NaiveTime) are minutes since midnight; adding a   *)
(* Duration to a NaiveTime wraps around midnight, as chrono does.          *)
(* Durations (chrono::Duration) are whole minutes.  Dates are day numbers  *)
(* and the weekday of a date is read off the day number.  Option<T> is a   *)
(* sequence of length at most one.  A VecDeque is a sequence whose front   *)
(* is index 1 and whose back is index Len.                                 *)
(***************************************************************************)
EXTENDS Integers, Sequences, FiniteSets, TLC

VARIABLES
    \* --- Task under test (task/mod.rs), used by SpecTask ---
    task,                   \* the Task that do_work is applied to
    original,               \* its duration when it was constructed
    calls,                  \* number of do_work(25 minutes) calls so far
    class,                  \* result of the last get_task_priority(task)
    \* --- populate_time_block (schedule/mod.rs:103-188) ---
    tasks,                  \* parameter `tasks`
    schedule_block,         \* parameter `schedule_block`
    high_priority_queue,
    med_priority_queue,
    low_priority_queue,
    cur_time,
    high_med_prio_tasks,
    total_tasks,
    forced_low_pri,
    time_block_full,
    populated_time_block,
    branches,               \* history: the branch each loop pass took
    \* --- build_schedule (schedule/mod.rs:192-215) ---
    contexts,               \* parameter `contexts`
    all_tasks,              \* parameter `tasks` (the caller's list)
    day_block,              \* parameter `schedule_block` (bounding window)
    ctx_i,                  \* position of `for context in contexts`
    schedule,               \* the Vec being returned
    \* --- PreemptApp (model/mod.rs); its lists are `all_tasks` and `contexts` ---
    last_call,              \* history: the last call on the app and its result
    pc

vars == <<task, original, calls, class,
          tasks, schedule_block, high_priority_queue, med_priority_queue,
          low_priority_queue, cur_time, high_med_prio_tasks, total_tasks,
          forced_low_pri, time_block_full, populated_time_block, branches,
          contexts, all_tasks, day_block, ctx_i, schedule, last_call, pc>>

taskVars == <<task, original, calls, class>>

windowVars == <<tasks, schedule_block, high_priority_queue, med_priority_queue,
                low_priority_queue, cur_time, high_med_prio_tasks, total_tasks,
                forced_low_pri, time_block_full, populated_time_block, branches>>

dayVars == <<contexts, all_tasks, day_block, ctx_i, schedule>>

-----------------------------------------------------------------------------
(* Bounds of the model *)

\* longest task list handed to populate_time_block
MaxTasks == 2
\* longest task of the scheduler runs, in 25-minute slices
MaxSlices == 2
\* length, in 25-minute slices, of the long task of the long runs
MaxLongSlices == 9
\* largest duration and number of do_work calls of the task under test
MaxDuration == 60
MaxCalls == 3
\* priorities of the task under test range over -MaxPriority..MaxPriority
MaxPriority == 12
\* longest context list and task list handed to build_schedule
MaxContexts == 3
MaxDayTasks == 2
\* longest task list of the termination runs
MaxFairTasks == 2

-----------------------------------------------------------------------------
(* Program constants *)

DEFAULT_DURATION_MIN == 25
FORCED_LOW_PRIO_TASK == 4

MinutesPerDay == 24 * 60

None == <<>>
Some(x) == <<x>>

\* NaiveTime + Duration: wraps around midnight
AddTime(t, d) == (t + d) % MinutesPerDay

HM(h, m) == h * 60 + m

-----------------------------------------------------------------------------
(* task/mod.rs *)

\* Task::new_with_duration (description and created are never read by the
\* scheduler and are left out)
new_with_duration(name, priority, done, duration, context) ==
    [name |-> name, priority |-> priority, done |-> done,
     duration |-> duration, context |-> context]

\* Task::new
new_task(name, priority, done, context) ==
    new_with_duration(name, priority, done, DEFAULT_DURATION_MIN, context)

\* do_work without the clamp at zero
do_work_unclamped(t, duration) ==
    [t EXCEPT !.duration = t.duration - duration]

\* Task::do_work
do_work(t, duration) ==
    IF t.duration < duration
    THEN [t EXCEPT !.duration = 0]
    ELSE [t EXCEPT !.duration = t.duration - duration]

\* has_work_remaining of a task that is never finished
has_work_remaining_always(t) == t.duration >= 0

\* Task::has_work_remaining
has_work_remaining(t) == t.duration > 0

-----------------------------------------------------------------------------
(* timeblock/mod.rs *)

\* TimeBlock::new
new_block(start_time, end_time, start_date, end_date) ==
    [name |-> None, start_time |-> start_time, end_time |-> end_time,
     start_date |-> start_date, end_date |-> end_date]

\* TimeBlock::new_named
new_named(name, start_time, end_time, start_date, end_date) ==
    [name |-> Some(name), start_time |-> start_time, end_time |-> end_time,
     start_date |-> start_date, end_date |-> end_date]

-----------------------------------------------------------------------------
(* schedule/mod.rs: classification, queues, blocks *)

\* get_task_priority with Medium running up to High, no gap at 7..9
get_task_priority_contiguous(t) ==
    IF t.priority >= 10 THEN "High"
    ELSE IF t.priority <= 9 /\ t.priority >= 3 THEN "Medium"
    ELSE "Low"

get_task_priority(t) ==
    IF t.priority >= 10 THEN "High"
    ELSE IF t.priority <= 6 /\ t.priority >= 3 THEN "Medium"
    ELSE "Low"

\* VecDeque::push_front, VecDeque::pop_back
push_front(queue, x) == <<x>> \o queue
back(queue) == queue[Len(queue)]
without_back(queue) == SubSeq(queue, 1, Len(queue) - 1)

RECURSIVE queue_from(_, _, _, _)
queue_from(ts, cls, i, queue) ==
    IF i > Len(ts) THEN queue
    ELSE queue_from(ts, cls, i + 1,
                    IF get_task_priority(ts[i]) = cls
                    THEN push_front(queue, ts[i])
                    ELSE queue)

get_priority_queue(ts, cls) == queue_from(ts, cls, 1, <<>>)

task_label(t) == "Task - " \o t.name
rest_label(duration) == "Break (" \o ToString(duration) \o " minutes)"

create_pomodoro_block(t, start_time, date) ==
    new_named(task_label(t), start_time, AddTime(start_time, 25), date, date)

create_pomodoro_rest(start_time, date, duration) ==
    new_named(rest_label(duration), start_time, AddTime(start_time, 25), date, date)

\* handle_task that puts the task back as it was before the slice
handle_task_requeue_unworked(queue, time, schedule_date, out) ==
    IF queue = <<>>
    THEN [queue |-> queue, out |-> out]
    ELSE LET t == back(queue)
             popped == without_back(queue)
             worked == do_work(t, 25)
         IN  [queue |-> IF has_work_remaining(worked)
                        THEN push_front(popped, t)
                        ELSE popped,
              out   |-> Append(out, create_pomodoro_block(t, time, schedule_date))]

\* handle_task with the unfinished task put back at the back of the queue
handle_task_requeue_back(queue, time, schedule_date, out) ==
    IF queue = <<>>
    THEN [queue |-> queue, out |-> out]
    ELSE LET t == back(queue)
             popped == without_back(queue)
             worked == do_work(t, 25)
         IN  [queue |-> IF has_work_remaining(worked)
                        THEN Append(popped, worked)
                        ELSE popped,
              out   |-> Append(out, create_pomodoro_block(t, time, schedule_date))]

\* handle_task: the queue and the output vector after the call
handle_task(queue, time, schedule_date, out) ==
    IF queue = <<>>
    THEN [queue |-> queue, out |-> out]
    ELSE LET t == back(queue)
             popped == without_back(queue)
             worked == do_work(t, 25)
         IN  [queue |-> IF has_work_remaining(worked)
                        THEN push_front(popped, worked)
                        ELSE popped,
              out   |-> Append(out, create_pomodoro_block(t, time, schedule_date))]

-----------------------------------------------------------------------------
(* schedule/mod.rs: populate_time_block.  A frame is the function's locals. *)

\* lines 104-116
enter_populate(ts, block) ==
    [high_priority_queue  |-> get_priority_queue(ts, "High"),
     med_priority_queue   |-> get_priority_queue(ts, "Medium"),
     low_priority_queue   |-> get_priority_queue(ts, "Low"),
     cur_time             |-> block.start_time,
     high_med_prio_tasks  |-> 0,
     total_tasks          |-> 0,
     forced_low_pri       |-> FALSE,
     time_block_full      |-> FALSE,
     populated_time_block |-> <<>>,
     branches             |-> <<>>]

\* line 121 with the injection due after every fifth allocation
force_inject_every_fifth(f) ==
    /\ f.high_med_prio_tasks >= 1
    /\ f.high_med_prio_tasks % (FORCED_LOW_PRIO_TASK + 1) = 0
    /\ ~f.forced_low_pri

\* line 121 without `high_med_prio_tasks >= 1`
force_inject_from_zero(f) ==
    /\ f.high_med_prio_tasks % FORCED_LOW_PRIO_TASK = 0
    /\ ~f.forced_low_pri

\* line 121 without `!forced_low_pri`
force_inject_again(f) ==
    /\ f.high_med_prio_tasks >= 1
    /\ f.high_med_prio_tasks % FORCED_LOW_PRIO_TASK = 0

\* line 121
force_inject(f) ==
    /\ f.high_med_prio_tasks >= 1
    /\ f.high_med_prio_tasks % FORCED_LOW_PRIO_TASK = 0
    /\ ~f.forced_low_pri

\* line 169 with > for >=
window_full_strict(f, block) == f.cur_time > block.end_time

\* line 169
window_full(f, block) == f.cur_time >= block.end_time

\* lines 173-177
rest_duration(f) == IF f.total_tasks % 4 = 0 THEN 20 ELSE 5

logged(f, branch, out) ==
    Append(f.branches, [branch |-> branch,
                        emitted |-> Len(out) > Len(f.populated_time_block)])

\* lines 119-167 with the Medium queue served before the High queue
allocate_medium_first(f, block) ==
    IF f.high_priority_queue # <<>> \/ f.med_priority_queue # <<>>
    THEN IF force_inject(f)
         THEN LET r == handle_task(f.low_priority_queue, f.cur_time,
                                   block.start_date, f.populated_time_block)
              IN  [f EXCEPT !.low_priority_queue = r.queue,
                            !.populated_time_block = r.out,
                            !.forced_low_pri = TRUE,
                            !.cur_time = AddTime(f.cur_time, 25),
                            !.total_tasks = f.total_tasks + 1,
                            !.branches = logged(f, "forced", r.out)]
         ELSE IF f.med_priority_queue = <<>>
         THEN LET r == handle_task(f.high_priority_queue, f.cur_time,
                                   block.start_date, f.populated_time_block)
              IN  [f EXCEPT !.high_priority_queue = r.queue,
                            !.populated_time_block = r.out,
                            !.high_med_prio_tasks = f.high_med_prio_tasks + 1,
                            !.forced_low_pri = FALSE,
                            !.cur_time = AddTime(f.cur_time, 25),
                            !.total_tasks = f.total_tasks + 1,
                            !.branches = logged(f, "high", r.out)]
         ELSE LET r == handle_task(f.med_priority_queue, f.cur_time,
                                   block.start_date, f.populated_time_block)
              IN  [f EXCEPT !.med_priority_queue = r.queue,
                            !.populated_time_block = r.out,
                            !.high_med_prio_tasks = f.high_med_prio_tasks + 1,
                            !.forced_low_pri = FALSE,
                            !.cur_time = AddTime(f.cur_time, 25),
                            !.total_tasks = f.total_tasks + 1,
                            !.branches = logged(f, "med", r.out)]
    ELSE IF f.low_priority_queue # <<>>
    THEN LET r == handle_task(f.low_priority_queue, f.cur_time,
                              block.start_date, f.populated_time_block)
         IN  [f EXCEPT !.low_priority_queue = r.queue,
                       !.populated_time_block = r.out,
                       !.cur_time = AddTime(f.cur_time, 25),
                       !.total_tasks = f.total_tasks + 1,
                       !.branches = logged(f, "low", r.out)]
    ELSE [f EXCEPT !.time_block_full = TRUE,
                   !.total_tasks = f.total_tasks + 1,
                   !.branches = logged(f, "none", f.populated_time_block)]

\* lines 119-167: the allocation part of one loop pass
allocate(f, block) ==
    IF f.high_priority_queue # <<>> \/ f.med_priority_queue # <<>>
    THEN IF force_inject(f)
         THEN LET r == handle_task(f.low_priority_queue, f.cur_time,
                                   block.start_date, f.populated_time_block)
              IN  [f EXCEPT !.low_priority_queue = r.queue,
                            !.populated_time_block = r.out,
                            !.forced_low_pri = TRUE,
                            !.cur_time = AddTime(f.cur_time, 25),
                            !.total_tasks = f.total_tasks + 1,
                            !.branches = logged(f, "forced", r.out)]
         ELSE IF f.high_priority_queue # <<>>
         THEN LET r == handle_task(f.high_priority_queue, f.cur_time,
                                   block.start_date, f.populated_time_block)
              IN  [f EXCEPT !.high_priority_queue = r.queue,
                            !.populated_time_block = r.out,
                            !.high_med_prio_tasks = f.high_med_prio_tasks + 1,
                            !.forced_low_pri = FALSE,
                            !.cur_time = AddTime(f.cur_time, 25),
                            !.total_tasks = f.total_tasks + 1,
                            !.branches = logged(f, "high", r.out)]
         ELSE LET r == handle_task(f.med_priority_queue, f.cur_time,
                                   block.start_date, f.populated_time_block)
              IN  [f EXCEPT !.med_priority_queue = r.queue,
                            !.populated_time_block = r.out,
                            !.high_med_prio_tasks = f.high_med_prio_tasks + 1,
                            !.forced_low_pri = FALSE,
                            !.cur_time = AddTime(f.cur_time, 25),
                            !.total_tasks = f.total_tasks + 1,
                            !.branches = logged(f, "med", r.out)]
    ELSE IF f.low_priority_queue # <<>>
    THEN LET r == handle_task(f.low_priority_queue, f.cur_time,
                              block.start_date, f.populated_time_block)
         IN  [f EXCEPT !.low_priority_queue = r.queue,
                       !.populated_time_block = r.out,
                       !.cur_time = AddTime(f.cur_time, 25),
                       !.total_tasks = f.total_tasks + 1,
                       !.branches = logged(f, "low", r.out)]
    ELSE [f EXCEPT !.time_block_full = TRUE,
                   !.total_tasks = f.total_tasks + 1,
                   !.branches = logged(f, "none", f.populated_time_block)]

\* lines 169-184: the boundary check and the rest block of one loop pass
check_rest(f, block) ==
    IF window_full(f, block)
    THEN [f EXCEPT !.time_block_full = TRUE]
    ELSE IF ~f.time_block_full
    THEN [f EXCEPT !.populated_time_block =
                       Append(f.populated_time_block,
                              create_pomodoro_rest(f.cur_time, block.start_date,
                                                   rest_duration(f))),
                   !.cur_time = AddTime(f.cur_time, rest_duration(f))]
    ELSE f

\* lines 118-187: the loop, run to its end
RECURSIVE run_loop(_, _)
run_loop(f, block) ==
    IF f.time_block_full THEN f
    ELSE run_loop(check_rest(allocate(f, block), block), block)

populate_time_block(ts, block) ==
    run_loop(enter_populate(ts, block), block).populated_time_block

-----------------------------------------------------------------------------
(* context/mod.rs and the rest of task/mod.rs *)

Weekdays == <<"Mon", "Tue", "Wed", "Thu", "Fri", "Sat", "Sun">>

\* NaiveDate::weekday: day number 0 is a Monday
weekday(day) == Weekdays[(day % 7) + 1]

\* str::to_lowercase on the names the model uses
to_lowercase(s) ==
    CASE s = "Work" -> "work"
      [] s = "WORK" -> "work"
      [] s = "Home" -> "home"
      [] s = "T1"   -> "t1"
      [] s = "T2"   -> "t2"
      [] OTHER      -> s

\* Context::new (transition and exceptions are never read by the scheduler)
new_context(name, days, start, end) ==
    [name |-> name, days |-> days, start |-> start, end |-> end]

\* get_timeblock without the weekday test
get_timeblock_any_day(c, day) == Some(new_block(c.start, c.end, day, day))

\* Context::get_timeblock
get_timeblock(c, day) ==
    IF \E k \in 1..Len(c.days) : c.days[k] = weekday(day)
    THEN Some(new_block(c.start, c.end, day, day))
    ELSE None

\* the condition of filter_context_tasks without `!task.done`
keeps_done_too(c, t) ==
    /\ t.context # None
    /\ to_lowercase(t.context[1]) = to_lowercase(c.name)

\* the condition of filter_context_tasks
keeps(c, t) ==
    /\ t.context # None
    /\ ~t.done
    /\ to_lowercase(t.context[1]) = to_lowercase(c.name)

\* Task::filter_context_tasks
filter_context_tasks(c, ts) == SelectSeq(ts, LAMBDA t : keeps(c, t))

-----------------------------------------------------------------------------
(* The state machines *)

Frame ==
    [high_priority_queue  |-> high_priority_queue,
     med_priority_queue   |-> med_priority_queue,
     low_priority_queue   |-> low_priority_queue,
     cur_time             |-> cur_time,
     high_med_prio_tasks  |-> high_med_prio_tasks,
     total_tasks          |-> total_tasks,
     forced_low_pri       |-> forced_low_pri,
     time_block_full      |-> time_block_full,
     populated_time_block |-> populated_time_block,
     branches             |-> branches]

SetFrame(f) ==
    /\ high_priority_queue'  = f.high_priority_queue
    /\ med_priority_queue'   = f.med_priority_queue
    /\ low_priority_queue'   = f.low_priority_queue
    /\ cur_time'             = f.cur_time
    /\ high_med_prio_tasks'  = f.high_med_prio_tasks
    /\ total_tasks'          = f.total_tasks
    /\ forced_low_pri'       = f.forced_low_pri
    /\ time_block_full'      = f.time_block_full
    /\ populated_time_block' = f.populated_time_block
    /\ branches'             = f.branches

\* the frame of populate_time_block(ts, block) on entry to its loop
FrameIs(f) ==
    /\ high_priority_queue  = f.high_priority_queue
    /\ med_priority_queue   = f.med_priority_queue
    /\ low_priority_queue   = f.low_priority_queue
    /\ cur_time             = f.cur_time
    /\ high_med_prio_tasks  = f.high_med_prio_tasks
    /\ total_tasks          = f.total_tasks
    /\ forced_low_pri       = f.forced_low_pri
    /\ time_block_full      = f.time_block_full
    /\ populated_time_block = f.populated_time_block
    /\ branches             = f.branches

NoTask   == /\ task = new_task("t0", 0, FALSE, None)
            /\ original = DEFAULT_DURATION_MIN
            /\ calls = 0
            /\ class = "unset"

NoWindow == /\ tasks = <<>>
            /\ schedule_block = new_block(0, 0, 0, 0)
            /\ FrameIs(enter_populate(<<>>, new_block(0, 0, 0, 0)))

NoApp    == last_call = [op |-> "new", name |-> "", ret |-> "Ok"]

NoDay    == /\ contexts = <<>>
            /\ all_tasks = <<>>
            /\ day_block = new_block(0, 0, 0, 0)
            /\ ctx_i = 1
            /\ schedule = <<>>

(* ---- the task under test: do_work and get_task_priority ---- *)

InitTask ==
    /\ \E p \in (0 - MaxPriority)..MaxPriority, d \in 0..MaxDuration :
          /\ task = new_with_duration("t0", p, FALSE, d, None)
          /\ original = d
    /\ calls = 0
    /\ class = "unset"
    /\ NoWindow
    /\ NoDay
    /\ NoApp
    /\ pc = "task"

DoWork ==
    /\ pc = "task"
    /\ calls < MaxCalls
    /\ task' = do_work(task, 25)
    /\ calls' = calls + 1
    /\ UNCHANGED <<original, class, windowVars, dayVars, pc, last_call>>

Classify ==
    /\ pc = "task"
    /\ class' = get_task_priority(task)
    /\ UNCHANGED <<task, original, calls, windowVars, dayVars, pc, last_call>>

NextTask == DoWork \/ Classify

SpecTask == InitTask /\ [][NextTask]_vars

(* ---- one run of populate_time_block ---- *)

Priorities == {1, 5, 10}
Durations  == {0, 10, 25, 25 * MaxSlices}
Kinds      == [priority : Priorities, duration : Durations]

task_name(i) == "t" \o ToString(i)

\* the tasks of one context, not done, named by their position
AsTasks(ks) ==
    [i \in 1..Len(ks) |->
        new_with_duration(task_name(i), ks[i].priority, FALSE,
                          ks[i].duration, Some("work"))]

ShortLists == UNION {[1..n -> Kinds] : n \in 0..MaxTasks}

\* four Medium tasks and one Low task of 25 minutes each, the Low one anywhere
FiveLists ==
    {[i \in 1..5 |-> [priority |-> IF i = low THEN 1 ELSE 5, duration |-> 25]] :
        low \in 1..5}

\* one long High or Medium task, with or without a Low task waiting
LongLists ==
    {<<[priority |-> p, duration |-> 25 * MaxLongSlices]>> : p \in {5, 10}}
    \cup
    {<<[priority |-> p, duration |-> 25 * MaxLongSlices],
       [priority |-> 1, duration |-> d]>> : p \in {5, 10}, d \in {25, 25 * MaxLongSlices}}

\* one High, one Medium and one Low task, in any order and of any duration
ClassLists ==
    {[i \in 1..3 |-> [priority |-> ps[i], duration |-> ds[i]]] :
        ps \in {qs \in [1..3 -> Priorities] : \A i, j \in 1..3 : i # j => qs[i] # qs[j]},
        ds \in [1..3 -> Durations]}

TaskLists ==
    {AsTasks(ks) : ks \in ShortLists \cup ClassLists \cup FiveLists \cup LongLists}

Windows ==
    {new_block(w[1], w[2], 3, 3) :
        w \in {<<HM(9, 0), HM(10, 0)>>, <<HM(9, 0), HM(9, 25)>>,
               <<HM(9, 0), HM(17, 0)>>, <<HM(23, 40), HM(23, 59)>>}}

InitWindow ==
    /\ \E ts \in TaskLists, block \in Windows :
          /\ tasks = ts
          /\ schedule_block = block
          /\ FrameIs(enter_populate(ts, block))
    /\ NoTask
    /\ NoDay
    /\ NoApp
    /\ pc = "alloc"

\* lines 119-167 of one pass of `while !time_block_full`
Allocate ==
    /\ pc = "alloc"
    /\ SetFrame(allocate(Frame, schedule_block))
    /\ pc' = "check"
    /\ UNCHANGED <<tasks, schedule_block, taskVars, dayVars, last_call>>

\* lines 169-184 of the pass, and the loop condition; "ret" is line 187
CheckRest ==
    /\ pc = "check"
    /\ LET f == check_rest(Frame, schedule_block)
       IN  /\ SetFrame(f)
           /\ pc' = IF f.time_block_full THEN "ret" ELSE "alloc"
    /\ UNCHANGED <<tasks, schedule_block, taskVars, dayVars, last_call>>

NextWindow == Allocate \/ CheckRest

SpecWindow == InitWindow /\ [][NextWindow]_vars

\* the runs of the termination check: every kind of task in lists of up to
\* MaxFairTasks, and the five-task and long-task lists, in every window
FairTaskLists ==
    {AsTasks(ks) : ks \in UNION {[1..n -> Kinds] : n \in 0..MaxFairTasks}
                            \cup FiveLists \cup LongLists}

InitWindowFair ==
    /\ \E ts \in FairTaskLists, block \in Windows :
          /\ tasks = ts
          /\ schedule_block = block
          /\ FrameIs(enter_populate(ts, block))
    /\ NoTask
    /\ NoDay
    /\ NoApp
    /\ pc = "alloc"

\* the loop is sequential code: a pass that can run does run
SpecWindowFair == InitWindowFair /\ [][NextWindow]_vars /\ WF_vars(NextWindow)

(* ---- build_schedule ---- *)

DayLists ==
    {<<"Tue">>, <<"Tue", "Mon">>}

\* the afternoon context comes with the earlier name so that list order and
\* time order can disagree
ContextKinds ==
    {new_context("work", days, HM(13, 0), HM(14, 0)) : days \in DayLists}
    \cup
    {new_context("Home", days, HM(9, 0), HM(10, 0)) : days \in DayLists}

ContextLists == UNION {[1..n -> ContextKinds] : n \in 0..MaxContexts}

DayTaskKinds ==
    [context : {None, Some("Work"), Some("home")}, done : BOOLEAN]

\* tasks of the default duration, named by their position, alternately of
\* High and of Low priority
AsDayTasks(ks) ==
    [i \in 1..Len(ks) |->
        new_task(task_name(i), IF i % 2 = 1 THEN 10 ELSE 1,
                 ks[i].done, ks[i].context)]

DayTaskLists == {AsDayTasks(ks) : ks \in UNION {[1..n -> DayTaskKinds] : n \in 0..MaxDayTasks}}

InitDay ==
    /\ contexts \in ContextLists
    /\ all_tasks \in DayTaskLists
    /\ day_block = new_block(HM(0, 0), HM(23, 59), 0, 0)
    /\ ctx_i = 1
    /\ schedule = <<>>
    /\ NoTask
    /\ NoWindow
    /\ NoApp
    /\ pc = "build"

\* the caller's list after a context was scheduled, had the engine worked on
\* the caller's tasks instead of on copies of them
borrowed_worked(ts, c) ==
    [i \in 1..Len(ts) |-> IF keeps(c, ts[i]) THEN do_work(ts[i], 25) ELSE ts[i]]

\* the caller's list after a context was scheduled: `tasks: &Vec<Task>` is
\* borrowed immutably, the engine works on tasks.clone() (line 206) and
\* get_priority_queue clones once more (line 33)
borrowed(ts, c) == ts

\* lines 202-209, the context is active on the date
ActiveContext ==
    /\ pc = "build"
    /\ ctx_i <= Len(contexts)
    /\ LET timeblock == get_timeblock(contexts[ctx_i], day_block.start_date)
       IN  /\ timeblock # None
           /\ schedule' = schedule \o
                 populate_time_block(
                     filter_context_tasks(contexts[ctx_i], all_tasks),
                     timeblock[1])
    /\ all_tasks' = borrowed(all_tasks, contexts[ctx_i])
    /\ ctx_i' = ctx_i + 1
    /\ UNCHANGED <<contexts, day_block, taskVars, windowVars, pc, last_call>>

\* lines 202-203 and 210, the context is not active on the date
InactiveContext ==
    /\ pc = "build"
    /\ ctx_i <= Len(contexts)
    /\ get_timeblock(contexts[ctx_i], day_block.start_date) = None
    /\ ctx_i' = ctx_i + 1
    /\ UNCHANGED <<contexts, all_tasks, day_block, schedule, taskVars, windowVars, pc, last_call>>

\* line 214
ReturnSchedule ==
    /\ pc = "build"
    /\ ctx_i > Len(contexts)
    /\ pc' = "end"
    /\ UNCHANGED <<dayVars, taskVars, windowVars, last_call>>

NextDay == ActiveContext \/ InactiveContext \/ ReturnSchedule

SpecDay == InitDay /\ [][NextDay]_vars

(* ---- PreemptApp: add_task and add_context (model/mod.rs) ---- *)

\* get_task comparing the names as they are written
get_task_case_sensitive(ts, name) ==
    LET hits == {k \in 1..Len(ts) : ts[k].name = name}
    IN  IF hits = {} THEN None
        ELSE Some(ts[CHOOSE k \in hits : \A m \in hits : k <= m])

\* PreemptApp::get_task: the first task with that name, ignoring case
get_task(ts, name) ==
    LET hits == {k \in 1..Len(ts) : to_lowercase(ts[k].name) = to_lowercase(name)}
    IN  IF hits = {} THEN None
        ELSE Some(ts[CHOOSE k \in hits : \A m \in hits : k <= m])

\* PreemptApp::get_context
get_context(cs, name) ==
    LET hits == {k \in 1..Len(cs) : to_lowercase(cs[k].name) = to_lowercase(name)}
    IN  IF hits = {} THEN None
        ELSE Some(cs[CHOOSE k \in hits : \A m \in hits : k <= m])

\* PreemptApp::add_task: the task list after the call and the Result
add_task(ts, t) ==
    IF get_task(ts, t.name) = None
    THEN [tasks |-> Append(ts, t), ret |-> "Ok"]
    ELSE [tasks |-> ts, ret |-> "Err"]

\* PreemptApp::add_context
add_context(cs, c) ==
    IF get_context(cs, c.name) = None
    THEN [contexts |-> Append(cs, c), ret |-> "Ok"]
    ELSE [contexts |-> cs, ret |-> "Err"]

AppTaskNames    == {"t1", "T1", "t2", "T2"}
AppContextNames == {"work", "Work", "WORK", "home", "Home"}

\* PreemptApp::new
InitApp ==
    /\ all_tasks = <<>>
    /\ contexts = <<>>
    /\ NoApp
    /\ day_block = new_block(0, 0, 0, 0)
    /\ ctx_i = 1
    /\ schedule = <<>>
    /\ NoTask
    /\ NoWindow
    /\ pc = "app"

AddTask ==
    /\ pc = "app"
    /\ \E name \in AppTaskNames, p \in Priorities :
          LET r == add_task(all_tasks, new_task(name, p, FALSE, None))
          IN  /\ all_tasks' = r.tasks
              /\ last_call' = [op |-> "add_task", name |-> name, ret |-> r.ret]
    /\ UNCHANGED <<contexts, day_block, ctx_i, schedule, taskVars, windowVars, pc>>

AddContext ==
    /\ pc = "app"
    /\ \E name \in AppContextNames :
          LET r == add_context(contexts,
                               new_context(name, <<"Tue">>, HM(9, 0), HM(10, 0)))
          IN  /\ contexts' = r.contexts
              /\ last_call' = [op |-> "add_context", name |-> name, ret |-> r.ret]
    /\ UNCHANGED <<all_tasks, day_block, ctx_i, schedule, taskVars, windowVars, pc>>

NextApp == AddTask \/ AddContext

SpecApp == InitApp /\ [][NextApp]_vars

-----------------------------------------------------------------------------
(* Reading the output of populate_time_block *)

IsRest(b) == \E d \in {5, 20} : b.name = Some(rest_label(d))
IsWork(b) == \E i \in 1..Len(tasks) : b.name = Some(task_label(tasks[i]))

\* the class of the task a work block is labelled with (names are unique)
BlockClass(b) ==
    get_task_priority(tasks[CHOOSE i \in 1..Len(tasks) :
                                b.name = Some(task_label(tasks[i]))])

WorkBlocks == SelectSeq(populated_time_block, IsWork)

HighMed(b) == BlockClass(b) \in {"High", "Medium"}

Last(q) == q[Len(q)]

BranchCount(name) ==
    Cardinality({k \in 1..Len(branches) : branches[k].branch = name})

AllHigh == \A i \in 1..Len(tasks) : get_task_priority(tasks[i]) = "High"

-----------------------------------------------------------------------------
(* Claims *)

\* C1: anti-starvation.  While a Low task is waiting in the Low queue, the
\* output never holds five High/Medium work blocks in a row (rest blocks
\* ignored): once four High/Medium work blocks have been emitted in a row the
\* next work block is a Low-class one.
C1_AntiStarvation ==
    LET w == WorkBlocks
        n == Len(w)
    IN  (n >= 5 /\ \A k \in (n - 4)..n : HighMed(w[k]))
            => low_priority_queue = <<>>

\* C1 witness: four High/Medium work blocks, then a Low block, then High/Medium
\* work again while a Low task is still queued.
C1_Witness ==
    LET w == WorkBlocks
    IN  /\ Len(w) >= 6
        /\ \A k \in 1..4 : HighMed(w[k])
        /\ BlockClass(w[5]) = "Low"
        /\ HighMed(w[6])
        /\ low_priority_queue # <<>>

\* C2 (as claimed): every block of the output, work or rest, starts strictly
\* before the end of a window whose start is before its end.
C2_StartsBeforeWindowEnd ==
    schedule_block.start_time < schedule_block.end_time
        => \A k \in 1..Len(populated_time_block) :
              populated_time_block[k].start_time < schedule_block.end_time

\* C3 (as claimed): one High task of 50 minutes in the window 09:00-10:00 gives
\* exactly work 09:00-09:25, rest 09:25-09:30, work 09:30-09:55.
C3_Scenario ==
    (/\ pc = "ret"
     /\ tasks = <<new_with_duration("t1", 10, FALSE, 50, Some("work"))>>
     /\ schedule_block = new_block(HM(9, 0), HM(10, 0), 3, 3))
        => populated_time_block =
              <<new_named("Task - t1", HM(9, 0), HM(9, 25), 3, 3),
                new_named("Break (5 minutes)", HM(9, 25), HM(9, 30), 3, 3),
                new_named("Task - t1", HM(9, 30), HM(9, 55), 3, 3)>>

\* C4 (as claimed): with only High-class tasks no loop pass takes the
\* anti-starvation branch (and so none of its 25-minute slots is consumed).
C4_NoForcedBranchWhenAllHigh ==
    AllHigh => BranchCount("forced") = 0

\* C5: when the clock after the allocation part of a pass is at or past the
\* window end, that pass ends the loop and appends no rest block.
C5_StopsWithoutTrailingRest ==
    [][(pc = "check" /\ cur_time >= schedule_block.end_time)
          => (/\ pc' = "ret"
              /\ time_block_full'
              /\ populated_time_block' = populated_time_block
              /\ cur_time' = cur_time)]_vars

\* C5 witness: the run has returned with the clock at or past the window end
\* and a work block as the last block of the output.
C5_Witness ==
    /\ pc = "ret"
    /\ cur_time >= schedule_block.end_time
    /\ populated_time_block # <<>>
    /\ IsWork(Last(populated_time_block))
    /\ Last(branches).emitted

FourMediumOneLow ==
    /\ Len(tasks) = 5
    /\ \A i \in 1..5 : tasks[i].duration = 25
    /\ Cardinality({i \in 1..5 : get_task_priority(tasks[i]) = "Medium"}) = 4
    /\ Cardinality({i \in 1..5 : get_task_priority(tasks[i]) = "Low"}) = 1

LargeWindow ==
    /\ schedule_block.start_time < schedule_block.end_time
    /\ schedule_block.end_time - schedule_block.start_time >= 5 * 25 + 3 * 5 + 20

\* C6 (as claimed): one Low and four Medium tasks of 25 minutes in a large
\* window: exactly one pass takes the anti-starvation branch, the fifth one.
C6_OneForcedInjection ==
    (pc = "ret" /\ FourMediumOneLow /\ LargeWindow)
        => /\ BranchCount("forced") = 1
           /\ branches[5].branch = "forced"

\* C6 (amended): in that scenario the Low task gets exactly one work block, the
\* fifth, right after the four Medium blocks; it is allocated by the ordinary
\* Low branch, the High and Medium queues being empty by then, and no pass
\* takes the anti-starvation branch.
C6_LowAfterFourMedium ==
    (pc = "ret" /\ FourMediumOneLow /\ LargeWindow)
        => /\ BranchCount("forced") = 0
           /\ Len(WorkBlocks) = 5
           /\ \A k \in 1..4 : BlockClass(WorkBlocks[k]) = "Medium"
           /\ BlockClass(WorkBlocks[5]) = "Low"
           /\ [k \in 1..Len(branches) |-> branches[k].branch]
                 = <<"med", "med", "med", "med", "low", "none">>

\* C6 witness: the scenario has run to its end.
C6_Witness ==
    /\ pc = "ret"
    /\ FourMediumOneLow
    /\ LargeWindow
    /\ Len(WorkBlocks) = 5

Max(a, b) == IF a >= b THEN a ELSE b

\* C7: after N calls of do_work(25 minutes) the remaining duration is
\* max(0, original - 25 N); it is never negative, and has_work_remaining is
\* true exactly when it is positive.
C7_RemainingDuration ==
    pc = "task"
        => /\ task.duration = Max(0, original - 25 * calls)
           /\ task.duration >= 0
           /\ has_work_remaining(task) <=> (task.duration # 0)

\* C7 witness: a call has clamped a remainder below 25 minutes to zero.
C7_Witness ==
    /\ pc = "task"
    /\ calls = 2
    /\ original = 30
    /\ task.duration = 0

\* C8: get_task_priority gives High from 10 up, Medium from 3 to 6, and Low for
\* every other integer (2 and below, negatives, and 7, 8, 9).
C8_Classification ==
    (pc = "task" /\ class # "unset")
        => /\ class \in {"High", "Medium", "Low"}
           /\ class = "High" <=> task.priority >= 10
           /\ class = "Medium" <=> task.priority \in {3, 4, 5, 6}
           /\ class = "Low" <=> (task.priority <= 2 \/ task.priority \in {7, 8, 9})

\* C8 witness: a priority of the gap 7..9 has been classified Low.
C8_Witness ==
    /\ pc = "task"
    /\ task.priority = 8
    /\ class = "Low"

\* C9 (as claimed): a task that enters the scheduler with duration zero gets
\* no work block.
C9_NoBlockForZeroDuration ==
    \A i \in 1..Len(tasks) :
        tasks[i].duration = 0
            => \A k \in 1..Len(populated_time_block) :
                  populated_time_block[k].name # Some(task_label(tasks[i]))

IsActive(c) == \E k \in 1..Len(c.days) : c.days[k] = weekday(day_block.start_date)

\* what context number i is to contribute to the schedule
Contribution(i) ==
    IF IsActive(contexts[i])
    THEN populate_time_block(
             filter_context_tasks(contexts[i], all_tasks),
             new_block(contexts[i].start, contexts[i].end,
                       day_block.start_date, day_block.start_date))
    ELSE <<>>

RECURSIVE Concatenation(_)
Concatenation(n) ==
    IF n = 0 THEN <<>> ELSE Concatenation(n - 1) \o Contribution(n)

\* C10: build_schedule's result is the concatenation, in context-list order, of
\* the populate_time_block outputs of the contexts active on the weekday of the
\* target date; an inactive context contributes nothing and nothing is sorted.
C10_Concatenation ==
    /\ schedule = Concatenation(ctx_i - 1)
    /\ pc = "end" => schedule = Concatenation(Len(contexts))

\* C10 witness: a schedule was returned for a context list with an inactive
\* context and two active ones, whose blocks are out of time order.
C10_Witness ==
    /\ pc = "end"
    /\ \E i \in 1..Len(contexts) : ~IsActive(contexts[i])
    /\ \E i \in 1..Len(contexts) : IsActive(contexts[i])
    /\ \E k \in 1..Len(schedule) : \E l \in (k + 1)..Len(schedule) :
          schedule[k].start_time > schedule[l].start_time

\* the tasks a context is to be given: context present, equal to the context's
\* name ignoring case, not done
Eligible(c) ==
    {i \in 1..Len(all_tasks) :
        /\ Len(all_tasks[i].context) = 1
        /\ to_lowercase(all_tasks[i].context[1]) = to_lowercase(c.name)
        /\ all_tasks[i].done = FALSE}

\* the n-th smallest member of a set of positions
Nth(E, n) == CHOOSE i \in E : Cardinality({e \in E : e < i}) = n - 1

\* C11: filter_context_tasks keeps exactly the tasks whose context is present,
\* equals the context's name ignoring case, and that are not done, in input
\* order; so every work block of build_schedule's output belongs to a task that
\* is not done and names a context that is active on the date, and it does not
\* start before that context's window.
C11_OnlyContextTasks ==
    /\ \A j \in 1..Len(contexts) :
          LET kept == filter_context_tasks(contexts[j], all_tasks)
              E == Eligible(contexts[j])
          IN  /\ Len(kept) = Cardinality(E)
              /\ \A n \in 1..Len(kept) : kept[n] = all_tasks[Nth(E, n)]
    /\ \A k \in 1..Len(schedule) : \A i \in 1..Len(all_tasks) :
          schedule[k].name = Some(task_label(all_tasks[i]))
              => \E j \in 1..Len(contexts) :
                    /\ IsActive(contexts[j])
                    /\ i \in Eligible(contexts[j])
                    /\ schedule[k].start_time >= contexts[j].start

\* C11 witness: a schedule with a work block was returned while a done task
\* and a task without context name were in the list, the done one naming an
\* active context.
C11_Witness ==
    /\ pc = "end"
    /\ \E k \in 1..Len(schedule) : \E i \in 1..Len(all_tasks) :
          schedule[k].name = Some(task_label(all_tasks[i]))
    /\ \E i \in 1..Len(all_tasks) : \E j \in 1..Len(contexts) :
          /\ all_tasks[i].done
          /\ IsActive(contexts[j])
          /\ keeps_done_too(contexts[j], all_tasks[i])

\* C12: scheduling is a projection: no step of build_schedule changes the
\* caller's task list (tasks, order, remaining durations, done flags) or the
\* context list.
C12_CallerListsUnchanged ==
    [][all_tasks' = all_tasks /\ contexts' = contexts]_vars

\* C12 witness: a schedule was returned holding a work block of a task (whose
\* copy the engine worked down to zero) that still has its 25 minutes in the
\* caller's list.
C12_Witness ==
    /\ pc = "end"
    /\ \E k \in 1..Len(schedule) : \E i \in 1..Len(all_tasks) :
          /\ schedule[k].name = Some(task_label(all_tasks[i]))
          /\ all_tasks[i].duration = DEFAULT_DURATION_MIN

HighMedPass(k) == branches[k].branch \in {"high", "med"}

\* C13 (as claimed): with a Low task waiting there are never more than three
\* High/Medium allocations in a row.
C13_AtMostThreeInARow ==
    LET n == Len(branches)
    IN  (n >= 4 /\ \A k \in (n - 3)..n : HighMedPass(k))
            => low_priority_queue = <<>>

\* C13 (amended): with a Low task waiting there are never more than four
\* High/Medium allocations in a row (loop passes, as the scheduler counts
\* them): the pass after the fourth is not a High/Medium one.
C13_AtMostFourInARow ==
    LET n == Len(branches)
    IN  (n >= 5 /\ \A k \in (n - 4)..n : HighMedPass(k))
            => low_priority_queue = <<>>

\* C13 witness: four High/Medium allocations in a row, then a forced Low slice
\* that emitted a block.
C13_Witness ==
    /\ Len(branches) >= 5
    /\ \A k \in 1..4 : HighMedPass(k)
    /\ branches[5].branch = "forced"
    /\ branches[5].emitted

\* C15 (as claimed): every rest block ends at its start plus the rest duration
\* its label carries (5 or 20 minutes), and the next block starts at its end.
C15_RestSpansItsDuration ==
    \A k \in 1..Len(populated_time_block) :
        LET b == populated_time_block[k]
        IN  IsRest(b)
               => \E d \in {5, 20} :
                     /\ b.name = Some(rest_label(d))
                     /\ b.end_time = AddTime(b.start_time, d)
                     /\ k < Len(populated_time_block)
                           => populated_time_block[k + 1].start_time = b.end_time

WorkBefore(k) ==
    Cardinality({j \in 1..(k - 1) : IsWork(populated_time_block[j])})

\* C16 (as claimed): a rest block is a long (20-minute) break exactly when the
\* number of work blocks emitted before it is a multiple of 4, and a short
\* (5-minute) break otherwise.
C16_LongRestEveryFourthWorkBlock ==
    \A k \in 1..Len(populated_time_block) :
        LET b == populated_time_block[k]
        IN  IsRest(b)
               => /\ b.name = Some(rest_label(20)) <=> (WorkBefore(k) % 4 = 0)
                  /\ b.name = Some(rest_label(5)) <=> (WorkBefore(k) % 4 # 0)

\* C17 (as claimed): every loop pass that advances the clock by a work slice
\* has emitted a work block, so the output never holds two rest blocks in a
\* row.
C17_SliceOnlyWithWorkBlock ==
    /\ \A k \in 1..Len(branches) :
          branches[k].branch # "none" => branches[k].emitted
    /\ \A k \in 1..(Len(populated_time_block) - 1) :
          ~(IsRest(populated_time_block[k]) /\ IsRest(populated_time_block[k + 1]))

\* C18: strict priority between the classes.  A pass that emits a Medium work
\* block found the High queue empty; a pass that emits a Low work block is a
\* forced injection or found both the High and the Medium queue empty.
C18_StrictPriority ==
    [][(pc = "alloc" /\ Len(populated_time_block') > Len(populated_time_block))
          => LET b == Last(populated_time_block')
             IN  /\ IsWork(b)
                 /\ BlockClass(b) = "Medium" => high_priority_queue = <<>>
                 /\ BlockClass(b) = "Low" =>
                       \/ Last(branches').branch = "forced"
                       \/ (high_priority_queue = <<>> /\ med_priority_queue = <<>>)]_vars

\* C18 witness: with tasks of all three classes and no forced injection, the
\* work blocks came out High first, then Medium, then Low.
C18_Witness ==
    /\ BranchCount("forced") = 0
    /\ Len(WorkBlocks) >= 3
    /\ BlockClass(WorkBlocks[1]) = "High"
    /\ \E k \in 2..Len(WorkBlocks) :
          /\ BlockClass(WorkBlocks[k]) = "Medium"
          /\ \E l \in (k + 1)..Len(WorkBlocks) : BlockClass(WorkBlocks[l]) = "Low"

\* the task a work block is labelled with (names are unique)
TaskOf(b) == CHOOSE i \in 1..Len(tasks) : b.name = Some(task_label(tasks[i]))

\* the tasks served by the work blocks emitted so far, in order
Served == [k \in 1..Len(WorkBlocks) |-> TaskOf(WorkBlocks[k])]

SameClass(i, j) == get_task_priority(tasks[i]) = get_task_priority(tasks[j])

\* slices after which task i leaves its queue (a task is served at least once)
SlicesNeeded(i) == Max(1, (tasks[i].duration + 24) \div 25)

\* number of slices task i received among the first k work blocks
ServedUpTo(i, k) == Cardinality({m \in 1..k : Served[m] = i})

\* C19: round-robin within a class.  Tasks of one class get their first work
\* block in input order, and between two successive work blocks of one task
\* every other task of its class that was still queued at the first of them
\* gets a work block.
C19_RoundRobin ==
    LET n == Len(WorkBlocks)
    IN  /\ \A i, j \in 1..Len(tasks) :
              (i < j /\ SameClass(i, j))
                  => \A l \in 1..n :
                        Served[l] = j => \E k \in 1..(l - 1) : Served[k] = i
        /\ \A k, l \in 1..n :
              (/\ k < l
               /\ Served[k] = Served[l]
               /\ \A m \in (k + 1)..(l - 1) : Served[m] # Served[k])
                  => \A u \in 1..Len(tasks) :
                        (/\ u # Served[k]
                         /\ SameClass(u, Served[k])
                         /\ ServedUpTo(u, k) < SlicesNeeded(u))
                            => \E m \in (k + 1)..(l - 1) : Served[m] = u

\* C19 witness: a finished run in which a task was requeued and served again
\* after another task of its class, which was input after it.
C19_Witness ==
    /\ pc = "ret"
    /\ \E k, m, l \in 1..Len(WorkBlocks) :
          /\ k < m /\ m < l
          /\ Served[k] = Served[l]
          /\ Served[m] > Served[k]
          /\ SameClass(Served[m], Served[k])

\* the tasks waiting in the three class queues
Queued == high_priority_queue \o med_priority_queue \o low_priority_queue

\* remaining duration of task i as the queues hold it, zero once it has left
RemainingOf(i) ==
    IF \E k \in 1..Len(Queued) : Queued[k].name = tasks[i].name
    THEN Queued[CHOOSE k \in 1..Len(Queued) : Queued[k].name = tasks[i].name].duration
    ELSE 0

\* the queue that a pass logged under the given branch takes its task from
ServedQueue(branch) ==
    IF branch = "high" THEN high_priority_queue
    ELSE IF branch = "med" THEN med_priority_queue
    ELSE low_priority_queue

\* C20: every pass that emits a work block emits exactly one, labelled with the
\* task at the back of the served queue, starting at the clock value on the
\* window's date and ending 25 minutes later on that date, whatever the task
\* had left; that task's remaining duration goes down by 25 minutes, clamped
\* at zero, and no other task's remaining duration changes.
C20_WorkBlockSpans25Minutes ==
    [][(pc = "alloc" /\ Len(populated_time_block') > Len(populated_time_block))
          => LET b == Last(populated_time_block')
                 q == ServedQueue(Last(branches').branch)
             IN  /\ Len(populated_time_block') = Len(populated_time_block) + 1
                 /\ q # <<>>
                 /\ b.name = Some(task_label(back(q)))
                 /\ b.start_time = cur_time
                 /\ b.start_date = schedule_block.start_date
                 /\ b.end_date = schedule_block.start_date
                 /\ b.end_time = b.start_time + 25
                 /\ \A i \in 1..Len(tasks) :
                       RemainingOf(i)' =
                           IF tasks[i].name = back(q).name
                           THEN Max(0, RemainingOf(i) - 25)
                           ELSE RemainingOf(i)]_vars

\* C21: a forced Low injection leaves high_med_prio_tasks alone and comes
\* directly after four High/Medium allocations, which are the first four of
\* the run or follow the previous forced injection; the pass after a forced
\* injection allocates from High or Medium when one of them is non-empty, so
\* two forced injections never follow each other.
C21_ForcedInjectionSpacing ==
    [][pc = "alloc"
          => LET n == Len(branches)
             IN  /\ Last(branches').branch = "forced"
                    => /\ high_med_prio_tasks' = high_med_prio_tasks
                       /\ n >= 4
                       /\ \A k \in (n - 3)..n : HighMedPass(k)
                       /\ n = 4 \/ branches[n - 4].branch = "forced"
                 /\ (/\ n >= 1
                     /\ branches[n].branch = "forced"
                     /\ high_priority_queue # <<>> \/ med_priority_queue # <<>>)
                    => /\ Last(branches').branch \in {"high", "med"}
                       /\ Last(branches').emitted
                       /\ high_med_prio_tasks' = high_med_prio_tasks + 1]_vars

\* C21 witness: a finished run with two forced injections, the second one
\* four High/Medium allocations after the first.
C21_Witness ==
    /\ pc = "ret"
    /\ \E k \in 1..Len(branches) :
          /\ k + 5 <= Len(branches)
          /\ branches[k].branch = "forced"
          /\ branches[k + 5].branch = "forced"
          /\ \A m \in (k + 1)..(k + 4) : HighMedPass(m)

\* slices the whole task list asks for
RECURSIVE SlicesFrom(_)
SlicesFrom(i) == IF i > Len(tasks) THEN 0 ELSE SlicesNeeded(i) + SlicesFrom(i + 1)

AllQueuesEmpty ==
    /\ high_priority_queue = <<>>
    /\ med_priority_queue = <<>>
    /\ low_priority_queue = <<>>

\* the loop has been left in one of its two terminal states
Terminal ==
    /\ pc = "ret"
    /\ time_block_full
    /\ cur_time >= schedule_block.end_time \/ AllQueuesEmpty

\* C22: populate_time_block terminates.  The number of loop passes is bounded
\* by the work in the task list (every pass but the last serves a slice or is
\* a forced injection between two served slices), and every run reaches
\* 'window full' or 'all queues empty', also when the clock wraps at midnight.
C22_Terminates ==
    /\ [](total_tasks <= 2 * SlicesFrom(1) + 1)
    /\ <>Terminal

\* C22 witness: a run that ended with all queues empty after the clock had
\* wrapped at midnight, below the window end.
C22_Witness ==
    /\ Terminal
    /\ AllQueuesEmpty
    /\ cur_time < schedule_block.start_time
    /\ \E k \in 1..Len(populated_time_block) :
          populated_time_block[k].start_time < schedule_block.start_time

IsQueued(i) == \E k \in 1..Len(Queued) : Queued[k].name = tasks[i].name

\* C23: work accounting.  A task of positive duration d never has more than
\* ceil(d / 25) work blocks, and has exactly that many when the run ended with
\* all queues empty; while it is queued its remaining duration is d less 25
\* minutes per work block, and once it has had all its work blocks it is in no
\* queue.
C23_WorkAccounting ==
    \A i \in 1..Len(tasks) :
        LET got == ServedUpTo(i, Len(WorkBlocks))
        IN  tasks[i].duration > 0
                => /\ got <= SlicesNeeded(i)
                   /\ (pc = "ret" /\ AllQueuesEmpty) => got = SlicesNeeded(i)
                   /\ IsQueued(i) => /\ got < SlicesNeeded(i)
                                     /\ RemainingOf(i) = tasks[i].duration - 25 * got
                   /\ got = SlicesNeeded(i) => ~IsQueued(i)

\* C23 witness: a run that ended with all queues empty before the window end,
\* after a 50-minute task got two work blocks and a 10-minute task got one.
C23_Witness ==
    /\ pc = "ret"
    /\ AllQueuesEmpty
    /\ cur_time < schedule_block.end_time
    /\ \E i, j \in 1..Len(tasks) :
          /\ tasks[i].duration = 50
          /\ ServedUpTo(i, Len(WorkBlocks)) = 2
          /\ tasks[j].duration = 10
          /\ ServedUpTo(j, Len(WorkBlocks)) = 1

\* C24: in the output of one run the start times increase strictly and none
\* is earlier than the window start, so the clock never wraps at midnight
\* into a block that starts before its predecessor.
C24_StartTimesIncrease ==
    \A k \in 1..Len(populated_time_block) :
        /\ populated_time_block[k].start_time >= schedule_block.start_time
        /\ k > 1 => populated_time_block[k - 1].start_time
                        < populated_time_block[k].start_time

\* no two elements of the list have names that are equal ignoring case
UniqueNames(xs) ==
    \A k, m \in 1..Len(xs) :
        k # m => to_lowercase(xs[k].name) # to_lowercase(xs[m].name)

HasName(xs, name) ==
    \E k \in 1..Len(xs) : to_lowercase(xs[k].name) = to_lowercase(name)

\* ys is xs with one element of that name appended
AppendedTo(xs, ys, name) ==
    /\ Len(ys) = Len(xs) + 1
    /\ SubSeq(ys, 1, Len(xs)) = xs
    /\ ys[Len(ys)].name = name

\* C25: name uniqueness in the application model.  An add of a name that is
\* already stored, ignoring case, returns an error and leaves both lists as
\* they were; any other add returns Ok, appends one element of that name at
\* the end of its list and leaves the other list alone; after every call no
\* two stored tasks and no two stored contexts have names equal ignoring case.
C25_NameUniqueness ==
    [][pc = "app"
          => LET c == last_call'
             IN  /\ c.op = "add_task"
                    => /\ contexts' = contexts
                       /\ IF HasName(all_tasks, c.name)
                          THEN c.ret = "Err" /\ all_tasks' = all_tasks
                          ELSE c.ret = "Ok" /\ AppendedTo(all_tasks, all_tasks', c.name)
                 /\ c.op = "add_context"
                    => /\ all_tasks' = all_tasks
                       /\ IF HasName(contexts, c.name)
                          THEN c.ret = "Err" /\ contexts' = contexts
                          ELSE c.ret = "Ok" /\ AppendedTo(contexts, contexts', c.name)
                 /\ c.op \in {"add_task", "add_context"}
                 /\ UniqueNames(all_tasks')
                 /\ UniqueNames(contexts')]_vars

\* C25 witness: with two tasks and two contexts stored, adding a task under a
\* stored name in another case was refused.
C25_Witness ==
    /\ pc = "app"
    /\ Len(all_tasks) = 2
    /\ Len(contexts) = 2
    /\ last_call.op = "add_task"
    /\ last_call.ret = "Err"
    /\ HasName(all_tasks, last_call.name)
    /\ \A k \in 1..Len(all_tasks) : all_tasks[k].name # last_call.name

====
